---------------------------- MODULE Spec2Model ----------------------------
(***************************************************************************)
(* A model of "Movie Recommendation System/CC-Project.ipynb": main() loads *)
(* movies.csv and ratings.csv, pivots and filters the ratings, fits a      *)
(* cosine nearest-neighbour index, trains two classifiers on random        *)
(* labels, shows a histogram and then answers title prompts until "quit".  *)
(*                                                                         *)
(* Conventions of the model                                                *)
(*  - a string whose characters matter (a title, an input) is the sequence *)
(*    of its code points: "Up" is <<85, 112>>; printed messages are TLA+   *)
(*    strings;                                                             *)
(*  - positions are 1-based where Python's are 0-based;                    *)
(*  - a cosine distance d = 1 - cos is kept as the pair <<p, q>> with      *)
(*    cos^2 = p/q, q > 0.  Ratings are non-negative, so cos >= 0 and the   *)
(*    order of distances is the reverse of the order of cos^2; distances   *)
(*    are compared by cross-multiplication (DistLess, DistLeq);            *)
(*  - ratings.csv is a bag of rows: ratings_csv[u, m].n rows of user u for *)
(*    movie m, all with the value ratings_csv[u, m].rating;                *)
(*  - the library calls whose outcome only depends on the data set being   *)
(*    of realistic size (KNeighborsClassifier(n_neighbors=5) needing five  *)
(*    training rows) are taken to succeed.                                 *)
(***************************************************************************)
EXTENDS Integers, Sequences, FiniteSets, TLC

(* ------------------------------ bounds -------------------------------- *)

\* ratings.csv rates movies among 1..NMovies; movies.csv lists them and one
\* more movie that has no rating
NMovies == 3
\* the default of n_movies_to_recommend ranges over 1..MaxN
MaxN == 2

\* the users of ratings.csv
Users == {1, 2}
\* the rating user u gives to every movie the user rates
RatingOf == [u \in Users |-> u]
\* the number of rows ratings.csv holds per rated pair of user and movie
Copies == {25, 26}

Movies == 1..NMovies

\* Python's None and a value that is not None, as sequences of length 0 and 1
None == <<>>

Some(x) == <<x>>

Get(o) == o[1]

(* ------------------------------ strings ------------------------------- *)

\* str.lower() on the code points of ASCII
LowerChar(c) == IF c \in 65..90 THEN c + 32 ELSE c

lower(s) == [i \in 1..Len(s) |-> LowerChar(s[i])]

\* 'quit'
quit == <<113, 117, 105, 116>>

\* s < t for Python strings (code point order, a proper prefix is smaller)
RECURSIVE StrLess(_, _)
StrLess(s, t) ==
    IF t = <<>> THEN FALSE
    ELSE IF s = <<>> THEN TRUE
    ELSE IF s[1] # t[1] THEN s[1] < t[1]
    ELSE StrLess(Tail(s), Tail(t))

(* ------------------------------ difflib ------------------------------- *)

\* the length of the common run of a from i and b from j, inside [.., ahi) x [.., bhi)
RECURSIVE RunLen(_, _, _, _, _, _)
RunLen(a, b, i, j, ahi, bhi) ==
    IF i < ahi /\ j < bhi /\ a[i] = b[j]
    THEN 1 + RunLen(a, b, i + 1, j + 1, ahi, bhi)
    ELSE 0

\* for every start <<i, j>> in [alo, ahi) x [blo, bhi) the length of the block there
BlockLens(a, b, alo, ahi, blo, bhi) ==
    [c \in (alo..(ahi - 1)) \X (blo..(bhi - 1)) |->
        RunLen(a, b, c[1], c[2], ahi, bhi)]

MaxLen(len) ==
    IF DOMAIN len = {} THEN 0
    ELSE CHOOSE k \in {len[c] : c \in DOMAIN len} : \A c \in DOMAIN len : len[c] <= k

\* of the blocks of length k the one that starts earliest in a, and of those
\* the one that starts earliest in b
FirstBlock(len, k, alo, blo) ==
    IF k = 0 THEN <<alo, blo, 0>>
    ELSE LET c == CHOOSE c \in DOMAIN len :
                    /\ len[c] = k
                    /\ \A e \in DOMAIN len : len[e] = k =>
                          \/ c[1] < e[1]
                          \/ c[1] = e[1] /\ c[2] <= e[2]
         IN  <<c[1], c[2], k>>

LongestIn(len, alo, blo) == FirstBlock(len, MaxLen(len), alo, blo)

\* SequenceMatcher.find_longest_match(alo, ahi, blo, bhi) on half-open ranges
find_longest_match(a, b, alo, ahi, blo, bhi) ==
    LongestIn(BlockLens(a, b, alo, ahi, blo, bhi), alo, blo)

\* the total size of SequenceMatcher.get_matching_blocks(): the longest block
\* m of the range, and the blocks to its left and to its right
RECURSIVE Matches(_, _, _, _, _, _)
RECURSIVE MatchesAround(_, _, _, _, _, _, _)
MatchesAround(a, b, alo, ahi, blo, bhi, m) ==
    IF m[3] = 0 THEN 0
    ELSE m[3]
         + (IF alo < m[1] /\ blo < m[2]
            THEN Matches(a, b, alo, m[1], blo, m[2]) ELSE 0)
         + (IF m[1] + m[3] < ahi /\ m[2] + m[3] < bhi
            THEN Matches(a, b, m[1] + m[3], ahi, m[2] + m[3], bhi) ELSE 0)

Matches(a, b, alo, ahi, blo, bhi) ==
    MatchesAround(a, b, alo, ahi, blo, bhi,
                  find_longest_match(a, b, alo, ahi, blo, bhi))

\* SequenceMatcher(None, a, b).ratio() = 2.0 * M / T as the pair <<2M, T>>
ratio(a, b) ==
    IF Len(a) + Len(b) = 0 THEN <<1, 1>>
    ELSE <<2 * Matches(a, b, 1, Len(a) + 1, 1, Len(b) + 1), Len(a) + Len(b)>>

\* ratio >= cutoff for the default cutoff 0.6 (6/10)
AtLeastCutoff(r) == 10 * r[1] >= 6 * r[2]

\* <<score1, x1>> < <<score2, x2>> as Python compares tuples
ScoredLess(r1, x1, r2, x2) ==
    \/ r1[1] * r2[2] < r2[1] * r1[2]
    \/ r1[1] * r2[2] = r2[1] * r1[2] /\ StrLess(x1, x2)

\* heapq.nlargest(1, ...) over the possibilities whose score reaches the cutoff
BestScored(possibilities, score) ==
    LET good == {i \in 1..Len(possibilities) : AtLeastCutoff(score[i])}
    IN  IF good = {} THEN <<>>
        ELSE LET b == CHOOSE i \in good : \A j \in good :
                        ~ScoredLess(score[i], possibilities[i],
                                    score[j], possibilities[j])
             IN  <<possibilities[b]>>

\* difflib.get_close_matches(word, possibilities, n=1): [] or the one best
get_close_matches(word, possibilities) ==
    BestScored(possibilities,
               [i \in 1..Len(possibilities) |-> ratio(possibilities[i], word)])

(* ------------------------------ the files ----------------------------- *)

\* the titles of the catalogue: "Up", "Us"
TitleList == << <<85, 112>>, <<85, 115>> >>

\* the title of a movie of movies.csv that nobody has rated: "It"
UnratedTitle == <<73, 116>>

\* movies.csv: movie m of Movies carries the title m mod 2 of TitleList, so
\* that from the third movie on titles repeat; one more movie, which has no
\* row in ratings.csv, follows them
Catalogue ==
    [m \in 1..(NMovies + 1) |->
        [movieId |-> m,
         title   |-> IF m \in Movies THEN TitleList[((m - 1) % Len(TitleList)) + 1]
                     ELSE UnratedTitle]]

\* the contents ratings.csv may have: user u has c rows, all of the rating
\* RatingOf[u], for each movie of rated[u]
RatingFiles ==
    {[p \in Users \X Movies |->
        IF p[2] \in rated[p[1]] THEN [n |-> c, rating |-> RatingOf[p[1]]]
        ELSE [n |-> 0, rating |-> 0]] :
        rated \in [Users -> SUBSET Movies], c \in Copies}

\* a file of the working directory: whether it exists, and its contents
File(data) == [exists |-> TRUE, data |-> data]

NoMoviesFile == [exists |-> FALSE, data |-> <<>>]

NoRatingsFile ==
    [exists |-> FALSE, data |-> [p \in Users \X Movies |-> [n |-> 0, rating |-> 0]]]

\* what the user may type: "quit", "QUIT", " quit", "Up", "Ups", "up", "It"
Inputs ==
    { <<113, 117, 105, 116>>, <<81, 85, 73, 84>>, <<32, 113, 117, 105, 116>>,
      <<85, 112>>, <<85, 112, 115>>, <<117, 112>>, <<73, 116>> }

(* --------------------------- pandas helpers --------------------------- *)

\* the elements of a finite set of integers in increasing order
RECURSIVE SortedSeq(_)
SortedSeq(S) ==
    IF S = {} THEN <<>>
    ELSE LET lo == CHOOSE x \in S : \A z \in S : x <= z
         IN  <<lo>> \o SortedSeq(S \ {lo})

Range(s) == {s[i] : i \in 1..Len(s)}

First(S) == CHOOSE i \in S : \A j \in S : i <= j

\* ratings.groupby('userId')['rating'].count() for one user: the user's rows
RECURSIVE CountRows(_, _, _)
CountRows(r, u, ms) ==
    IF ms = {} THEN 0
    ELSE LET m == CHOOSE x \in ms : TRUE
         IN  r[<<u, m>>].n + CountRows(r, u, ms \ {m})

no_movies_voted(r, u) == CountRows(r, u, Movies)

\* the users with 50 rows or more: no_movies_voted[no_movies_voted >= 50].index
KeptUsersFromFifty(r) == {u \in Users : no_movies_voted(r, u) >= 50}

\* the users kept: no_movies_voted[no_movies_voted > 50].index
KeptUsers(r) == {u \in Users : no_movies_voted(r, u) > 50}

\* the frame of the rows idx and the columns cols of the ratings r, the mean
\* of a pair's ratings or, by fillna(0), 0
Pivot(r, idx, cols) ==
    [movieId |-> idx,
     userId  |-> cols,
     values  |-> [i \in 1..Len(idx) |-> [j \in 1..Len(cols) |->
                    IF r[<<cols[j], idx[i]>>].n > 0
                    THEN r[<<cols[j], idx[i]>>].rating ELSE 0]]]

\* ratings.pivot_table(index='movieId', columns='userId', values='rating')
\* and fillna(0): one row per movie with a rating, one column per user with
\* a rating
pivot_table(r) ==
    Pivot(r, SortedSeq({m \in Movies : \E u \in Users : r[<<u, m>>].n > 0}),
             SortedSeq({u \in Users : \E m \in Movies : r[<<u, m>>].n > 0}))

\* fd.iloc[:, :len(keep)] followed by reset_index(): the columns by position
ColumnsByPosition(fd, keep) ==
    [movieId |-> fd.movieId,
     userId  |-> keep,
     values  |-> [i \in 1..Len(fd.movieId) |-> [j \in 1..Len(keep) |->
                    fd.values[i][j]]]]

\* fd.loc[:, keep] followed by reset_index()
Columns(fd, keep) ==
    [movieId |-> fd.movieId,
     userId  |-> keep,
     values  |-> [i \in 1..Len(fd.movieId) |-> [j \in 1..Len(keep) |->
                    fd.values[i][First({k \in 1..Len(fd.userId) :
                                            fd.userId[k] = keep[j]})]]]]

SelectColumns(fd, users) == Columns(fd, SortedSeq(users))

\* a loader whose except clause covers the read of movies.csv only
load_catching_movies_only(mcsv, rcsv) ==
    IF ~mcsv.exists
    THEN <<None, None, None,
           <<"Error: movies.csv or ratings.csv not found. Please ensure files are in the correct directory.">> >>
    ELSE <<Some(mcsv.data), Some(rcsv.data),
           Some(SelectColumns(pivot_table(rcsv.data), KeptUsers(rcsv.data))), <<>> >>

\* load_and_preprocess_data(): <<movies, ratings, final_dataset, printed>>
load_and_preprocess_data(mcsv, rcsv) ==
    IF ~mcsv.exists \/ ~rcsv.exists
    THEN <<None, None, None,
           <<"Error: movies.csv or ratings.csv not found. Please ensure files are in the correct directory.">> >>
    ELSE <<Some(mcsv.data), Some(rcsv.data),
           Some(SelectColumns(pivot_table(rcsv.data), KeptUsers(rcsv.data))), <<>> >>

(* --------------------------- nearest neighbours ----------------------- *)

RECURSIVE Dot(_, _)
Dot(a, b) == IF a = <<>> THEN 0 ELSE a[1] * b[1] + Dot(Tail(a), Tail(b))

\* the distance of two vectors from their products ab, aa and bb, as <<p, q>>
\* with cos^2 = p/q; a zero vector is left as it is by the normalisation, so
\* its cosine is 0
CosineOf(ab, aa, bb) ==
    IF aa = 0 \/ bb = 0 THEN <<0, 1>> ELSE <<ab * ab, aa * bb>>

CosineDistance(a, b) == CosineOf(Dot(a, b), Dot(a, a), Dot(b, b))

\* d1 < d2 and d1 <= d2 on distances (the larger cosine is the smaller distance)
DistLess(d1, d2) == d1[1] * d2[2] > d2[1] * d1[2]

DistLeq(d1, d2) == d1[1] * d2[2] >= d2[1] * d1[2]

\* csr_matrix(final_dataset.iloc[:, 1:].values)
csr_matrix(fd) == fd.values

\* knn.fit(csr_data) raises the ValueError of a matrix with no row or no column
FitError(X) == Len(X) = 0 \/ Len(X[1]) = 0

\* create_recommendation_model(final_dataset): the fitted index and csr_data
create_recommendation_model(fd) ==
    [knn |-> [metric |-> "cosine", algorithm |-> "brute", fit_X |-> csr_matrix(fd)],
     csr_data |-> csr_matrix(fd)]

\* the orders in which rows at the same distance may come out of the index
TieOrders(R) == {p \in [1..R -> 1..R] : \A i, j \in 1..R : p[i] = p[j] => i = j}

\* the row of left that is next: the nearest, and of those the first in tie
NextNearest(d, tie, left) ==
    CHOOSE i \in left : \A j \in left \ {i} :
        \/ DistLess(d[i], d[j])
        \/ DistLeq(d[i], d[j]) /\ tie[i] < tie[j]

\* the k rows of left nearest by the distances d, as <<row, distance>> in
\* increasing distance
RECURSIVE Nearest(_, _, _, _)
RECURSIVE NearestFrom(_, _, _, _, _)
NearestFrom(d, k, tie, left, nxt) ==
    <<<<nxt, d[nxt]>>>> \o Nearest(d, k - 1, tie, left \ {nxt})

Nearest(d, k, tie, left) ==
    IF k = 0 \/ left = {} THEN <<>>
    ELSE NearestFrom(d, k, tie, left, NextNearest(d, tie, left))

\* the lists the index may answer with for the distances d: rows at equal
\* distance come in any order
NearestLists(d, k) ==
    {Nearest(d, k, tie, DOMAIN d) : tie \in TieOrders(Len(d))}

\* knn.kneighbors(q, n_neighbors=k), zipped with the distances: the lists it
\* may return; defined for k <= number of rows
kneighbors(knn, q, k) ==
    NearestLists([i \in 1..Len(knn.fit_X) |-> CosineDistance(q, knn.fit_X[i])], k)

\* the first smallest element of s by distance
FirstSmallest(s) ==
    CHOOSE i \in 1..Len(s) :
        /\ \A j \in 1..Len(s) : DistLeq(s[i][2], s[j][2])
        /\ \A j \in 1..(i - 1) : DistLess(s[i][2], s[j][2])

Without(s, i) == [j \in 1..(Len(s) - 1) |-> IF j < i THEN s[j] ELSE s[j + 1]]

\* sorted(pairs, key=lambda x: x[1]): a stable sort by distance
RECURSIVE sorted(_)
RECURSIVE SortedFrom(_, _)
SortedFrom(s, i) == <<s[i]>> \o sorted(Without(s, i))

sorted(s) == IF s = <<>> THEN <<>> ELSE SortedFrom(s, FirstSmallest(s))

\* the slice s[1:]: from the second element up to the last
SliceDropFirst(s) == Tail(s)

\* the slice s[:0:-1]: from the last element down to the second
SliceDropFirstReversed(s) ==
    [i \in 1..(Len(s) - 1) |-> s[Len(s) + 1 - i]]

(* ---------------------- get_movie_recommendation --------------------- *)

\* movies[movies['title'] == selected_movie]['movieId'].values[0]
MovieIdOfTitle(movies, t) ==
    movies[First({i \in 1..Len(movies) : movies[i].title = t})].movieId

\* movies.iloc[movies[movies['movieId'] == id].index[0]]['title']
TitleOfMovieId(movies, id) ==
    movies[First({i \in 1..Len(movies) : movies[i].movieId = id})].title

\* final_dataset[final_dataset['movieId'] == movie_idx].index[0]
MatrixIndex(fd, movie_idx) ==
    First({i \in 1..Len(fd.movieId) : fd.movieId[i] = movie_idx})

\* row labels range(n_movies_to_recommend), which count from 0
FrameIndexFromZero(n) == [i \in 1..n |-> i - 1]

\* the row labels of the returned frame: range(1, n_movies_to_recommend+1)
FrameIndex(n) == [i \in 1..n |-> i]

\* pd.DataFrame(rows, index=index): the frame; a ValueError when the length
\* of the index is not the number of rows
DataFrame(rows, index) ==
    [error |-> Len(rows) # Len(index), index |-> index, rows |-> rows]

\* the number of neighbours asked of the index for n recommendations
NeighborsAsked(n) == n + 1

\* rec_movie_indices of a neighbour list: sorted, the first dropped and the
\* rest reversed
RecMovieIndices(neighbours) == SliceDropFirstReversed(sorted(neighbours))

\* similarities after the loop: val[1] of every val of rec_movie_indices
Similarities(rec_movie_indices) ==
    [i \in 1..Len(rec_movie_indices) |-> rec_movie_indices[i][2]]

\* a variance that takes a single data point
VarianceLineOfOne(similarities) ==
    IF Len(similarities) < 1 THEN "Not enough data to calculate variance."
    ELSE "Variance of recommendation similarities"

\* the line the try block prints: statistics.variance(similarities) raises a
\* StatisticsError for fewer than two data points; the printed number, the
\* variance to four decimals, is left out of the line
VarianceLine(similarities) ==
    IF Len(similarities) < 2 THEN "Not enough data to calculate variance."
    ELSE "Variance of recommendation similarities"

\* what a call returns (None or a frame) unless it raised, what it printed,
\* its rec_movie_indices, and how often it called the matcher and the index
Returned(ret, printed, rec, queried) ==
    [raised |-> FALSE, ret |-> ret, out |-> printed, rec |-> rec,
     matched |-> 1, queried |-> queried]

Raised(rec) ==
    [raised |-> TRUE, ret |-> None, out |-> <<>>, rec |-> rec,
     matched |-> 1, queried |-> 1]

\* the end of get_movie_recommendation: the frame of df, and the variance
Finish(df, rec_movie_indices) ==
    IF df.error THEN Raised(rec_movie_indices)
    ELSE Returned(Some([index |-> df.index, rows |-> df.rows]),
                  <<VarianceLine(Similarities(rec_movie_indices))>>,
                  rec_movie_indices, 1)

\* the loop over rec_movie_indices that builds recommend_frame, and df
BuildFrame(rec_movie_indices, movies, fd, n) ==
    Finish(DataFrame([i \in 1..Len(rec_movie_indices) |->
                        [Title |-> TitleOfMovieId(movies,
                                      fd.movieId[rec_movie_indices[i][1]]),
                         Distance |-> rec_movie_indices[i][2]]],
                     FrameIndex(n)),
           rec_movie_indices)

\* get_movie_recommendation without the test of movie_idx against
\* final_dataset: .index[0] raises an IndexError for a movie that is no row
NeighboursUnchecked(movie_idx, movies, fd, knn, csr_data, n) ==
    IF movie_idx \notin Range(fd.movieId)
    THEN {[raised |-> TRUE, ret |-> None, out |-> <<>>, rec |-> <<>>,
           matched |-> 1, queried |-> 0]}
    ELSE IF NeighborsAsked(n) > Len(knn.fit_X)
    THEN {Raised(<<>>)}
    ELSE {BuildFrame(RecMovieIndices(nb), movies, fd, n) :
            nb \in kneighbors(knn, csr_data[MatrixIndex(fd, movie_idx)],
                              NeighborsAsked(n))}

\* get_movie_recommendation from selected_movie's movie_idx on; kneighbors
\* raises a ValueError when asked for more neighbours than the index has rows
Neighbours(movie_idx, movies, fd, knn, csr_data, n) ==
    IF movie_idx \notin Range(fd.movieId)
    THEN {Returned(None, <<"Movie not found in dataset for recommendations.">>, <<>>, 0)}
    ELSE IF NeighborsAsked(n) > Len(knn.fit_X)
    THEN {Raised(<<>>)}
    ELSE {BuildFrame(RecMovieIndices(nb), movies, fd, n) :
            nb \in kneighbors(knn, csr_data[MatrixIndex(fd, movie_idx)],
                              NeighborsAsked(n))}

\* get_movie_recommendation from closest_match on
Selected(closest_match, movies, fd, knn, csr_data, n) ==
    IF closest_match = <<>>
    THEN {Returned(None, <<"No matching movie found. Please check your input.">>, <<>>, 0)}
    ELSE Neighbours(MovieIdOfTitle(movies, closest_match[1]),
                    movies, fd, knn, csr_data, n)

\* get_movie_recommendation(movie_name, movies, final_dataset, knn, csr_data,
\* n_movies_to_recommend): the outcomes the call may have, one for each
\* answer the index may give
get_movie_recommendation(movie_name, movies, fd, knn, csr_data, n) ==
    Selected(get_close_matches(movie_name,
                               [i \in 1..Len(movies) |-> movies[i].title]),
             movies, fd, knn, csr_data, n)

(* ------------------------------ train_models -------------------------- *)

\* train_test_split(X, y, test_size=0.2): the number of training rows
TrainSize(n) == n - ((n + 4) \div 5)

\* the splits of the rows into training and test rows
TrainSets(n) == {S \in SUBSET (1..n) : Cardinality(S) = TrainSize(n)}

\* train_models raises when the training set is empty (train_test_split) or
\* its labels are all the same (SVC.fit)
TrainRaises(labels, train) ==
    train = {} \/ \A i, j \in train : labels[i] = labels[j]

\* what train_models prints
TrainOutput ==
    <<"SVM model -: ", "Precision, Recall", "\n", "K-NN model -:", "Precision, Recall", "\n">>

\* a train_models that stores its labels as one more column of final_dataset
DatasetWithLabels(fd, labels) ==
    [fd EXCEPT !.userId = Append(@, 0),
               !.values = [i \in 1..Len(@) |-> Append(@[i], labels[i])]]

\* final_dataset after train_models(final_dataset): X and y are only read
DatasetAfterTraining(fd, labels) == fd

(* --------------------------------- main ------------------------------- *)

\* a main that shows the plot only once the loop has ended
MainStepsPlotLast == <<"load", "fit", "train", "loop", "visualize">>

\* the statements of main in order; the prompt loop is the last
MainSteps == <<"load", "fit", "train", "visualize", "loop">>

StepAfter(s) ==
    LET i == CHOOSE k \in 1..Len(MainSteps) : MainSteps[k] = s
    IN  IF i < Len(MainSteps) THEN MainSteps[i + 1] ELSE "done"

\* if movies is None or ratings is None or final_dataset is None: return
LoadFailed(m, r, fd) == m = None \/ r = None \/ fd = None

\* if movie_name == 'quit': break
IsQuitExact(name) == name = quit

\* if movie_name.lower() == 'quit': break
IsQuit(name) == lower(name) = quit

\* a main that prints the block without the test of recommendations
MainPrintsAlways(ret) ==
    <<"\nRecommended Movies:", "recommendations", "\n">>

\* what main prints after a call that returned ret
MainPrints(ret) ==
    (IF ret # None THEN <<"\nRecommended Movies:", "recommendations">> ELSE <<>>)
    \o <<"\n">>

VARIABLES
    pc,                     \* the statement of main to run next, "done", "crashed"
    movies_csv,             \* the file movies.csv
    ratings_csv,            \* the file ratings.csv
    n_movies_to_recommend,  \* the default of get_movie_recommendation's parameter
    movies, ratings, final_dataset,
    knn, csr_data,
    y,                      \* the labels train_models drew, while it runs
    movie_name,             \* the last input
    recommendations,        \* the last value of get_movie_recommendation
    rec_movie_indices,      \* its rec_movie_indices
    out,                    \* the lines printed by the last step
    log,                    \* the statements of main that completed, in order
    fits,                   \* how often knn.fit ran
    calls,                  \* the matcher and index calls of the last step
    prompted                \* whether input() was called

vars == <<pc, movies_csv, ratings_csv, n_movies_to_recommend, movies, ratings,
          final_dataset, knn, csr_data, y, movie_name, recommendations,
          rec_movie_indices, out, log, fits, calls, prompted>>

NoCalls == [matched |-> 0, queried |-> 0]

\* both files, or a missing file; what is never read (the ratings and the
\* parameter when a file is missing) is fixed
Init ==
    /\ pc = MainSteps[1]
    /\ movies_csv \in {NoMoviesFile, File(Catalogue)}
    /\ ratings_csv \in {NoRatingsFile} \cup {File(r) : r \in RatingFiles}
    /\ n_movies_to_recommend \in 1..MaxN
    /\ ~movies_csv.exists =>
          \A p \in Users \X Movies : ratings_csv.data[p].n = 0
    /\ ~movies_csv.exists \/ ~ratings_csv.exists => n_movies_to_recommend = 1
    /\ movies = None /\ ratings = None /\ final_dataset = None
    /\ knn = None /\ csr_data = None
    /\ y = <<>>
    /\ movie_name = <<>>
    /\ recommendations = None
    /\ rec_movie_indices = <<>>
    /\ out = <<>>
    /\ log = <<>>
    /\ fits = 0
    /\ calls = NoCalls
    /\ prompted = FALSE

\* movies, ratings, final_dataset = load_and_preprocess_data(); return on None
Load ==
    /\ pc = "load"
    /\ \E r \in {load_and_preprocess_data(movies_csv, ratings_csv)} :
          /\ movies' = r[1] /\ ratings' = r[2] /\ final_dataset' = r[3]
          /\ out' = r[4]
          /\ pc' = IF LoadFailed(r[1], r[2], r[3]) THEN "done" ELSE StepAfter("load")
    /\ log' = Append(log, "load")
    /\ calls' = NoCalls
    /\ UNCHANGED <<movies_csv, ratings_csv, n_movies_to_recommend, knn, csr_data,
                   y, movie_name, recommendations, rec_movie_indices, fits, prompted>>

\* knn, csr_data = create_recommendation_model(final_dataset)
Fit ==
    /\ pc = "fit"
    /\ fits' = fits + 1
    /\ out' = <<>>
    /\ calls' = NoCalls
    /\ IF FitError(csr_matrix(Get(final_dataset)))
       THEN /\ pc' = "crashed"
            /\ UNCHANGED <<knn, csr_data, log>>
       ELSE /\ pc' = StepAfter("fit")
            /\ \E m \in {create_recommendation_model(Get(final_dataset))} :
                  /\ knn' = Some(m.knn)
                  /\ csr_data' = Some(m.csr_data)
            /\ log' = Append(log, "fit")
    /\ UNCHANGED <<movies_csv, ratings_csv, n_movies_to_recommend, movies, ratings,
                   final_dataset, y, movie_name, recommendations,
                   rec_movie_indices, prompted>>

\* train_models(final_dataset): random labels, a split, two classifiers
TrainModels ==
    /\ pc = "train"
    /\ \E labels \in [1..Len(Get(final_dataset).values) -> {0, 1}],
          train \in TrainSets(Len(Get(final_dataset).values)) :
          /\ y' = labels
          /\ final_dataset' = Some(DatasetAfterTraining(Get(final_dataset), labels))
          /\ IF TrainRaises(labels, train)
             THEN /\ pc' = "crashed"
                  /\ out' = <<>>
                  /\ UNCHANGED log
             ELSE /\ pc' = StepAfter("train")
                  /\ out' = TrainOutput
                  /\ log' = Append(log, "train")
    /\ calls' = NoCalls
    /\ UNCHANGED <<movies_csv, ratings_csv, n_movies_to_recommend, movies, ratings,
                   knn, csr_data, movie_name, recommendations, rec_movie_indices,
                   fits, prompted>>

\* visualize_datasets(final_dataset); the locals of train_models are gone
Visualize ==
    /\ pc = "visualize"
    /\ pc' = StepAfter("visualize")
    /\ y' = <<>>
    /\ out' = <<"Distribution of Ratings in Processed Dataset">>
    /\ log' = Append(log, "visualize")
    /\ calls' = NoCalls
    /\ UNCHANGED <<movies_csv, ratings_csv, n_movies_to_recommend, movies, ratings,
                   final_dataset, knn, csr_data, movie_name, recommendations,
                   rec_movie_indices, fits, prompted>>

\* one turn of the loop with the input 'quit' in some letter case: break
Quit ==
    /\ pc = "loop"
    /\ \E name \in Inputs :
          /\ IsQuit(name)
          /\ movie_name' = name
    /\ prompted' = TRUE
    /\ pc' = StepAfter("loop")
    /\ out' = <<>>
    /\ calls' = NoCalls
    /\ UNCHANGED <<movies_csv, ratings_csv, n_movies_to_recommend, movies, ratings,
                   final_dataset, knn, csr_data, y, recommendations,
                   rec_movie_indices, log, fits>>

\* one turn of the loop with any other input: a lookup and its printing
Recommend ==
    /\ pc = "loop"
    /\ \E name \in Inputs :
          /\ ~IsQuit(name)
          /\ movie_name' = name
          /\ \E r \in get_movie_recommendation(name, Get(movies), Get(final_dataset),
                          Get(knn), Get(csr_data), n_movies_to_recommend) :
                /\ calls' = [matched |-> r.matched, queried |-> r.queried]
                /\ rec_movie_indices' = r.rec
                /\ out' = IF r.raised THEN r.out ELSE r.out \o MainPrints(r.ret)
                /\ IF r.raised
                   THEN pc' = "crashed" /\ UNCHANGED recommendations
                   ELSE pc' = "loop" /\ recommendations' = r.ret
    /\ prompted' = TRUE
    /\ UNCHANGED <<movies_csv, ratings_csv, n_movies_to_recommend, movies, ratings,
                   final_dataset, knn, csr_data, y, log, fits>>

Next == Load \/ Fit \/ TrainModels \/ Visualize \/ Quit \/ Recommend

Spec == Init /\ [][Next]_vars

(* ------------------------ what the claims speak of -------------------- *)

\* the last step was a call of get_movie_recommendation that returned a frame
Succeeded == calls.matched = 1 /\ pc = "loop" /\ recommendations # None

\* the rows of the frame returned last
FrameRows == Get(recommendations).rows

\* the titles of movies, and the title matched with the last input
Titles == [i \in 1..Len(Get(movies)) |-> Get(movies)[i].title]

ClosestMatch == get_close_matches(movie_name, Titles)

\* the movie of the matched title, and its row of the rating matrix
QueryId == MovieIdOfTitle(Get(movies), ClosestMatch[1])

QueryRow == MatrixIndex(Get(final_dataset), QueryId)

\* the distance of row i of the rating matrix to the row of the query
DistanceTo(i) ==
    CosineDistance(Get(final_dataset).values[QueryRow], Get(final_dataset).values[i])

\* the rows of the rating matrix the last call recommended
ReturnedRows == {rec_movie_indices[i][1] : i \in 1..Len(rec_movie_indices)}

\* the spellings of 'quit' in any letter case
QuitSpellings ==
    {s \in [1..Len(quit) -> 0..127] :
        \A i \in 1..Len(quit) : s[i] = quit[i] \/ s[i] = quit[i] - 32}

(* -------------------------------- claims ------------------------------ *)

\* C1: a call that returns recommends exactly n movies other than the matched
\* movie, and no other movie left out is strictly closer to the matched movie
\* than a movie returned.
C1_ClosestOtherMovies ==
    Succeeded =>
        /\ QueryRow \notin ReturnedRows
        /\ Cardinality(ReturnedRows) = n_movies_to_recommend
        /\ \A o \in (1..Len(Get(final_dataset).values)) \ (ReturnedRows \cup {QueryRow}) :
              \A r \in ReturnedRows : ~DistLess(DistanceTo(o), DistanceTo(r))

\* C1: a reachable failure: the frame returned recommends the matched movie
C1_Witness ==
    /\ Succeeded
    /\ QueryRow \in ReturnedRows

\* C2: the Distance column of a returned frame never increases from one row
\* to the next: the first row holds the largest distance, the last the smallest.
C2_SortedByDistance ==
    Succeeded =>
        \A i, j \in 1..Len(FrameRows) :
            i < j => DistLeq(FrameRows[j].Distance, FrameRows[i].Distance)

C2_Witness ==
    /\ Succeeded
    /\ Len(FrameRows) = 2
    /\ DistLess(FrameRows[2].Distance, FrameRows[1].Distance)

\* C3: when movies.csv or ratings.csv is missing, loading prints the error and
\* returns three None, and main ends there: nothing is fitted, nothing is
\* trained or shown, and no input is asked for.
C3_MissingFileEndsMain ==
    (~movies_csv.exists \/ ~ratings_csv.exists) /\ pc # "load" =>
        /\ pc = "done"
        /\ movies = None /\ ratings = None /\ final_dataset = None
        /\ out = <<"Error: movies.csv or ratings.csv not found. Please ensure files are in the correct directory.">>
        /\ log = <<"load">>
        /\ fits = 0 /\ knn = None /\ csr_data = None
        /\ y = <<>>
        /\ ~prompted

C3_Witness ==
    /\ movies_csv.exists /\ ~ratings_csv.exists
    /\ pc = "done"
    /\ final_dataset = None

\* C4: whatever labels train_models draws, final_dataset, the index and
\* csr_data stay what loading and fitting made of the two files, and what a
\* call returns and prints is an outcome of the call on those, so that two
\* runs on the same files that differ in the labels answer alike.
C4_LabelsHaveNoBearing ==
    LET loaded == load_and_preprocess_data(movies_csv, ratings_csv)
        model  == create_recommendation_model(Get(loaded[3]))
    IN  /\ final_dataset # None => final_dataset = loaded[3]
        /\ knn # None => knn = Some(model.knn) /\ csr_data = Some(model.csr_data)
        /\ calls.matched = 1 /\ pc = "loop" =>
              \E r \in get_movie_recommendation(movie_name, Get(loaded[1]),
                          Get(loaded[3]), model.knn, model.csr_data,
                          n_movies_to_recommend) :
                  /\ ~r.raised
                  /\ recommendations = r.ret
                  /\ rec_movie_indices = r.rec
                  /\ out = r.out \o MainPrints(r.ret)

C4_Witness ==
    /\ Succeeded
    /\ log = <<"load", "fit", "train", "visualize">>

\* C5: a movie rated only by users that were removed for their low vote count
\* is not a row of final_dataset.
C5_LowVoteMoviesRemoved ==
    final_dataset # None =>
        \A i \in 1..Len(Get(final_dataset).movieId) :
            \E u \in KeptUsers(ratings_csv.data) :
                ratings_csv.data[<<u, Get(final_dataset).movieId[i]>>].n > 0

\* C5: a reachable failure: the prompt loop runs over a final_dataset with a
\* row for a movie that no kept user has rated
C5_Witness ==
    /\ pc = "loop"
    /\ KeptUsers(ratings_csv.data) # {}
    /\ \E i \in 1..Len(Get(final_dataset).movieId) :
          \A u \in KeptUsers(ratings_csv.data) :
              ratings_csv.data[<<u, Get(final_dataset).movieId[i]>>].n = 0

\* C6: main is a straight line: load, then one fit, then train_models, then
\* visualize_datasets, and only then the prompts; every input that is not
\* 'quit' makes one lookup of the title, against the index fitted at the start.
C6_LinearRun ==
    /\ fits <= 1
    /\ \E k \in 0..4 : log = SubSeq(<<"load", "fit", "train", "visualize">>, 1, k)
    /\ prompted =>
          /\ log = <<"load", "fit", "train", "visualize">>
          /\ fits = 1
          /\ knn = Some(create_recommendation_model(Get(final_dataset)).knn)
          /\ calls.matched = IF movie_name \in QuitSpellings THEN 0 ELSE 1

C6_Witness ==
    /\ prompted
    /\ calls.matched = 1
    /\ calls.queried = 1
    /\ pc = "loop"

\* C7: main breaks out of the loop exactly when the input is 'quit' in some
\* letter case, with nothing around it; then no lookup is made and nothing is
\* printed, and every other input is looked up as a title.
C7_QuitLeavesLoop ==
    prompted =>
        /\ pc = "done" <=> movie_name \in QuitSpellings
        /\ movie_name \in QuitSpellings => calls = NoCalls /\ out = <<>>
        /\ movie_name \notin QuitSpellings => calls.matched = 1

C7_Witness ==
    /\ prompted
    /\ pc = "done"
    /\ movie_name = <<81, 85, 73, 84>>

\* C8: when no title of movies reaches the cutoff 0.6 against the input, the
\* call prints "No matching movie found. Please check your input.", returns
\* None and does not query the index; main prints no "Recommended Movies:"
\* block and prompts again.
C8_NoMatch ==
    /\ prompted
    /\ movie_name \notin QuitSpellings
    /\ \A i \in 1..Len(Titles) :
          10 * ratio(Titles[i], movie_name)[1] < 6 * ratio(Titles[i], movie_name)[2]
    => /\ out = <<"No matching movie found. Please check your input.", "\n">>
       /\ recommendations = None
       /\ calls.queried = 0
       /\ pc = "loop"

C8_Witness ==
    /\ prompted
    /\ movie_name = <<117, 112>>
    /\ out = <<"No matching movie found. Please check your input.", "\n">>
    /\ pc = "loop"

\* C9: when the movie of the matched title is not a row of final_dataset, the
\* call prints "Movie not found in dataset for recommendations.", returns
\* None and does not query the index; and whenever the index is queried, the
\* movie of the matched title is a row of final_dataset.
C9_MovieNotInDataset ==
    /\ prompted /\ movie_name \notin QuitSpellings /\ ClosestMatch # <<>>
       /\ QueryId \notin Range(Get(final_dataset).movieId)
       => /\ out = <<"Movie not found in dataset for recommendations.", "\n">>
          /\ recommendations = None
          /\ calls.queried = 0
          /\ pc = "loop"
    /\ calls.queried = 1 =>
          /\ ClosestMatch # <<>>
          /\ QueryId \in Range(Get(final_dataset).movieId)

C9_Witness ==
    /\ prompted
    /\ movie_name = UnratedTitle
    /\ ClosestMatch = <<UnratedTitle>>
    /\ QueryId \notin Range(Get(final_dataset).movieId)
    /\ out = <<"Movie not found in dataset for recommendations.", "\n">>

\* C10: a call that returns a frame returns n rows labelled 1..n, each with
\* the title and the distance of one movie of the matrix, no movie twice.
C10_FrameShape ==
    Succeeded =>
        /\ Get(recommendations).index = [i \in 1..n_movies_to_recommend |-> i]
        /\ Len(FrameRows) = n_movies_to_recommend
        /\ Len(rec_movie_indices) = n_movies_to_recommend
        /\ Cardinality(ReturnedRows) = n_movies_to_recommend
        /\ \A i \in 1..Len(FrameRows) :
              /\ rec_movie_indices[i][1] \in 1..Len(Get(final_dataset).values)
              /\ FrameRows[i].Title =
                    TitleOfMovieId(Get(movies),
                                   Get(final_dataset).movieId[rec_movie_indices[i][1]])
              /\ DistLeq(FrameRows[i].Distance, DistanceTo(rec_movie_indices[i][1]))
              /\ DistLeq(DistanceTo(rec_movie_indices[i][1]), FrameRows[i].Distance)

C10_Witness ==
    /\ Succeeded
    /\ n_movies_to_recommend = 2
    /\ Len(FrameRows) = 2
    /\ FrameRows[1].Title # FrameRows[2].Title

\* the rows user u has in ratings.csv, over all movies
RowsOfUser(u) ==
    UNION {{<<m, k>> : k \in 1..ratings_csv.data[<<u, m>>].n} : m \in Movies}

\* the movies that have a row in ratings.csv
RatedMovies == {m \in Movies : \E u \in Users : ratings_csv.data[<<u, m>>].n > 0}

C12_VarianceLine ==
    Succeeded =>
        /\ Len(FrameRows) = n_movies_to_recommend
        /\ Similarities(rec_movie_indices) =
              [i \in 1..Len(FrameRows) |-> FrameRows[i].Distance]
        /\ out = << (IF n_movies_to_recommend < 2
                     THEN "Not enough data to calculate variance."
                     ELSE "Variance of recommendation similarities"),
                    "\nRecommended Movies:", "recommendations", "\n" >>

C12_Witness ==
    /\ Succeeded
    /\ n_movies_to_recommend = 1
    /\ Len(FrameRows) = 1
    /\ out[1] = "Not enough data to calculate variance."

=============================================================================
